---- MODULE Spec2Model ----
(***************************************************************************)
(* Model of appDraggableDirective (src/draggable.directive.ts): a drag    *)
(* session driven by mousedown / mousemove / mouseup on one host element  *)
(* that lives in a parent list, with an optional placeholder view that is *)
(* created from a template and moved among the parent's children.         *)
(*                                                                         *)
(* JavaScript indices are 0-based; a TLA+ sequence position p is the       *)
(* JavaScript index p - 1.                                                 *)
(***************************************************************************)
EXTENDS Integers, Sequences, FiniteSets, TLC

\* ---------------------------------------------------------------- bounds
NumItems == 3      \* real list items in the parent (the host is one of them)
MaxX == 1          \* event.clientX is 0 or MaxX
MaxY == 1          \* event.clientY is 0 or MaxY
MaxScroll == 1     \* window.scrollX / window.scrollY are 0 or MaxScroll
MaxPh == 2         \* distinct placeholder nodes the template can yield

\* ----------------------------------------------------------------- nodes
Item(i) == [kind |-> "item", id |-> i]
Ph(j) == [kind |-> "placeholder", id |-> j]
NullNode == [kind |-> "null", id |-> 0]
\* an HTMLElement that is not a child of the parent list (a descendant of
\* an item, the list itself, the page body, ...)
OutsideEl == [kind |-> "outside", id |-> 0]

Items == {Item(i) : i \in 1..NumItems}
PhNodes == {Ph(j) : j \in 1..MaxPh}

\* optional number: a CSS length that may be absent, or a JS value that may
\* be undefined
Undefined == [def |-> FALSE, val |-> 0]
Num(i) == [def |-> TRUE, val |-> i]

\* ------------------------------------------------------------- variables
VARIABLES
  blockedAxis,            \* @Input: "none" (undefined), "x" or "y"
  dragBy,                 \* @Input: "" (unset) or a class name
  hasHandle,              \* querySelector('.' + dragBy) finds an element
  rowPlaceholder,         \* @Input: a placeholder template is provided
  host,                   \* id of the item the directive is attached to
  isDragging,
  initialX, initialY,
  prevX, prevY,
  rowPlaceholderViewRef,  \* NullNode, or the root node of the live view
  rowPlaceholderElement,  \* NullNode, or a placeholder node
  oldIndex,
  mouseMoveListener,      \* TRUE: the bound function, FALSE: undefined
  children,               \* parentElement.children, in document order
  style,                  \* inline style of the host element
  dragClass,              \* host carries class 'app-draggable-dragging'
  changeCurrentElIndex,   \* events emitted by the last handler
  hostListeners,          \* the @HostListener handlers are still attached
  op,                     \* the last event delivered and its input
  downSinceEmit           \* an accepted mousedown happened since the last
                          \* emission (history)

config == <<blockedAxis, dragBy, hasHandle, rowPlaceholder, host>>
fields == <<isDragging, initialX, initialY, prevX, prevY,
            rowPlaceholderViewRef, rowPlaceholderElement, oldIndex,
            mouseMoveListener>>
dom == <<children, style, dragClass>>
vars == <<config, fields, dom, changeCurrentElIndex, hostListeners, op,
          downSinceEmit>>

\* -------------------------------------------------------- DOM primitives
RECURSIVE IndexOf(_, _)
\* Array.prototype.indexOf, shifted by one: the position of e in s, 0 when
\* e does not occur
IndexOf(s, e) ==
  IF s = <<>> THEN 0
  ELSE IF Head(s) = e THEN 1
  ELSE LET r == IndexOf(Tail(s), e) IN IF r = 0 THEN 0 ELSE r + 1

Contains(s, e) == IndexOf(s, e) # 0

\* Node.removeChild / ChildNode.remove
RemoveNode(s, e) == SelectSeq(s, LAMBDA c : c # e)

\* s with e inserted so that it ends at position p
InsertAt(s, e, p) == SubSeq(s, 1, p - 1) \o <<e>> \o SubSeq(s, p, Len(s))

\* Node.insertBefore(node, ref): a null or undefined ref appends; ref = node
\* leaves the tree as it is; otherwise node is moved in front of ref
InsertBefore(s, node, ref) ==
  IF ref = node THEN s
  ELSE LET t == RemoveNode(s, node) IN
       IF ref = NullNode THEN Append(t, node)
       ELSE InsertAt(t, node, IndexOf(t, ref))

\* children[i] for a JavaScript index i: undefined outside 0..length-1
ChildAt(s, i) == IF i >= 0 /\ i < Len(s) THEN s[i + 1] ELSE NullNode

\* element.nextSibling among the element children
NextSibling(s, e) == ChildAt(s, IndexOf(s, e))

\* the style attribute of the host element
NoStyle == [position |-> "", left |-> Undefined, top |-> Undefined,
            others |-> FALSE]

\* elementRef.nativeElement.offsetLeft / offsetTop: the laid-out position,
\* which is the static position unless an inline left / top is in force
StaticLeft == 0
StaticTop == 0
OffsetLeft(st) == IF st.left.def THEN st.left.val ELSE StaticLeft
OffsetTop(st) == IF st.top.def THEN st.top.val ELSE StaticTop

\* the value oldIndex is declared with
FreshIndex == -1

\* elementRef.nativeElement.oldIndex: an expando property no code sets
NativeOldIndex == Undefined

\* ------------------------------------------------ placeholder handling
\* The placeholder helpers work on the triple they read and write: the
\* parent's children, rowPlaceholderViewRef and rowPlaceholderElement.
PhState(ch, ref, el) == [children |-> ch, viewRef |-> ref, element |-> el]

\* EmbeddedViewRef.destroy(): the view's root node leaves the document
DestroyView(ch, ref) == RemoveNode(ch, ref)

\* the root node of a newly created view: a node not in the document
FreshPh(ch) ==
  Ph(CHOOSE j \in 1..MaxPh :
       /\ ~Contains(ch, Ph(j))
       /\ \A k \in 1..MaxPh : ~Contains(ch, Ph(k)) => j <= k)

\* ViewContainerRef.createEmbeddedView(tpl): the container is anchored at
\* the host element, so the new root node enters the document right after
\* the host
CreateEmbeddedView(ch, node) ==
  InsertAt(ch, node, IndexOf(ch, Item(host)) + 1)

removeRowPlaceholderElement_keepsNode(ps) ==
  PhState(ps.children, NullNode, ps.element)

removeRowPlaceholderElement(ps) ==
  LET ch1 == IF ps.viewRef # NullNode
             THEN DestroyView(ps.children, ps.viewRef) ELSE ps.children
      attached == ps.element # NullNode /\ Contains(ch1, ps.element)
  IN PhState(IF attached THEN RemoveNode(ch1, ps.element) ELSE ch1,
             NullNode,
             IF attached THEN NullNode ELSE ps.element)

createRowPlaceholderElement_noRemove(ps) ==
  LET node == FreshPh(ps.children)
      ch2 == CreateEmbeddedView(ps.children, node)
  IN PhState(InsertBefore(ch2, node, NextSibling(ch2, Item(host))),
             node, node)

createRowPlaceholderElement(ps) ==
  LET p1 == removeRowPlaceholderElement(ps)
      node == FreshPh(p1.children)
      ch2 == CreateEmbeddedView(p1.children, node)
  IN PhState(InsertBefore(ch2, node, NextSibling(ch2, Item(host))),
             node, node)

changeRowPlaceholderIndex_noRemove(ps, index) ==
  LET node == FreshPh(ps.children)
      ch2 == CreateEmbeddedView(ps.children, node)
      childCount == Len(ch2)
  IN PhState(IF index = childCount
             THEN Append(RemoveNode(ch2, node), node)
             ELSE InsertBefore(ch2, node, ChildAt(ch2, index)),
             node, node)

changeRowPlaceholderIndex_movesHost(ps, index) ==
  LET p1 == removeRowPlaceholderElement(ps)
      node == FreshPh(p1.children)
      ch2 == CreateEmbeddedView(p1.children, node)
      childCount == Len(ch2)
  IN PhState(IF index = childCount
             THEN Append(RemoveNode(ch2, Item(host)), Item(host))
             ELSE InsertBefore(ch2, Item(host), ChildAt(ch2, index)),
             node, node)

changeRowPlaceholderIndex(ps, index) ==
  LET p1 == removeRowPlaceholderElement(ps)
      node == FreshPh(p1.children)
      ch2 == CreateEmbeddedView(p1.children, node)
      childCount == Len(ch2)
  IN PhState(IF index = childCount
             THEN Append(RemoveNode(ch2, node), node)
             ELSE InsertBefore(ch2, node, ChildAt(ch2, index)),
             node, node)

\* removeEventListener of a function that was bound but never added has no
\* effect on the document; the field becomes undefined
cleanupListeners(listener) == IF listener THEN FALSE ELSE listener

\* ---------------------------------------------------- index computation
ItemsOf_unfiltered(ch, el) == ch

\* the children with the current placeholder element filtered out
ItemsOf(ch, el) == SelectSeq(ch, LAMBDA c : c # el)

\* items.indexOf(elementUnderCursor) + 1, clamped at 0
HoverIndex(items, over) ==
  LET i == (IndexOf(items, over) - 1) + 1 IN IF i < 0 THEN 0 ELSE i

\* newIndex > oldIndex: one less, clamped at 0
StepDown(newIndex, old) ==
  IF newIndex > old
  THEN (IF newIndex - 1 < 0 THEN 0 ELSE newIndex - 1)
  ELSE newIndex

\* newIndex < oldIndex: one more, clamped by the item count
StepUp(newIndex, old, itemsNumber) ==
  IF newIndex < old
  THEN (IF newIndex + 1 > itemsNumber THEN itemsNumber - 1 ELSE newIndex + 1)
  ELSE newIndex

\* newIndex = oldIndex while the cursor moves up: one less
StepBack(newIndex, old, movingUp) ==
  IF newIndex = old /\ movingUp THEN newIndex - 1 ELSE newIndex

\* the index onMouseMove passes to changeRowPlaceholderIndex and stores
ComputeIndex(items, over, old, movingUp) ==
  StepBack(StepUp(StepDown(HoverIndex(items, over), old), old, Len(items)),
           old, movingUp)

\* --------------------------------------------------------------- events
\* the pointer and scroll positions the events are drawn from
ClientXs == {0, MaxX}
ClientYs == {0, MaxY}
Scrolls == {0, MaxScroll}

\* an event as delivered: its kind, the element under the cursor, whether the
\* target is inside the handle, the window scroll offsets the handler reads
\* (0 when it reads none), and whether a drag was in progress when the event
\* arrived
Op(name, over, inHandle, scrollX, scrollY) ==
  [name |-> name, over |-> over, inHandle |-> inHandle,
   scrollX |-> scrollX, scrollY |-> scrollY, wasDragging |-> isDragging]

\* what document.elementFromPoint can return: a list item (the host
\* included), a placeholder that is in the document, an element outside the
\* list, or nothing that is an HTMLElement
UnderCursor(ch) ==
  Items \cup {c \in PhNodes : Contains(ch, c)} \cup {OutsideEl, NullNode}

DownAccepted_anyTarget(inHandle) == dragBy = "" \/ hasHandle

\* the mousedown starts a drag: no handle class is configured, or the
\* handle exists and contains the event target
DownAccepted(inHandle) == dragBy = "" \/ (hasHandle /\ inHandle)

\* the inline style right after an accepted mousedown
DragStyle == [position |-> "fixed", left |-> Undefined, top |-> Undefined,
              others |-> TRUE]

\* the placeholder state the handlers start from
CurrentPh == PhState(children, rowPlaceholderViewRef, rowPlaceholderElement)

Init ==
  /\ blockedAxis \in {"none", "x", "y"}
  /\ dragBy \in {"", "handle"}
  /\ hasHandle \in BOOLEAN
  /\ (dragBy = "" => ~hasHandle)
  /\ rowPlaceholder \in BOOLEAN
  /\ host \in 1..NumItems
  /\ isDragging = FALSE
  /\ initialX = StaticLeft
  /\ initialY = StaticTop
  /\ prevX = 0
  /\ prevY = 0
  /\ rowPlaceholderViewRef = NullNode
  /\ rowPlaceholderElement = NullNode
  /\ oldIndex = FreshIndex
  /\ mouseMoveListener = TRUE
  /\ children = [i \in 1..NumItems |-> Item(i)]
  /\ style = NoStyle
  /\ dragClass = FALSE
  /\ changeCurrentElIndex = <<>>
  /\ hostListeners = TRUE
  /\ op = Op("init", NullNode, FALSE, 0, 0)
  /\ downSinceEmit = FALSE

onMouseDown(inHandle, clientX, clientY, scrollX, scrollY) ==
  /\ hostListeners
  /\ op' = Op("mousedown", NullNode, inHandle,
              IF DownAccepted(inHandle) THEN scrollX ELSE 0,
              IF DownAccepted(inHandle) THEN scrollY ELSE 0)
  /\ changeCurrentElIndex' = <<>>
  /\ IF DownAccepted(inHandle)
     THEN \E ps2 \in {IF rowPlaceholder
                       THEN createRowPlaceholderElement(CurrentPh)
                       ELSE CurrentPh} :
             /\ style' = DragStyle
             /\ dragClass' = TRUE
             /\ isDragging' = TRUE
             /\ initialX' = clientX + scrollX
             /\ initialY' = clientY + scrollY
             /\ prevX' = clientX + scrollX
             /\ prevY' = clientY + scrollY
             /\ children' = ps2.children
             /\ rowPlaceholderViewRef' = ps2.viewRef
             /\ rowPlaceholderElement' = ps2.element
             /\ downSinceEmit' = TRUE
             /\ UNCHANGED <<oldIndex, mouseMoveListener>>
     ELSE UNCHANGED <<fields, dom, downSinceEmit>>
  /\ UNCHANGED <<config, hostListeners>>

UpCompletes_always == TRUE

\* the mouseup ends a drag: one is in progress
UpCompletes == isDragging

onMouseUp ==
  /\ hostListeners
  /\ op' = Op("mouseup", NullNode, FALSE, 0, 0)
  /\ IF UpCompletes
     THEN \E ps2 \in {removeRowPlaceholderElement(
                         removeRowPlaceholderElement(CurrentPh))} :
             /\ isDragging' = FALSE
             /\ mouseMoveListener' = cleanupListeners(mouseMoveListener)
             /\ style' = NoStyle
             /\ dragClass' = FALSE
             /\ initialX' = OffsetLeft(NoStyle)
             /\ initialY' = OffsetTop(NoStyle)
             /\ children' = ps2.children
             /\ rowPlaceholderViewRef' = ps2.viewRef
             /\ rowPlaceholderElement' = ps2.element
             /\ changeCurrentElIndex' =
                  <<[oldIndex |-> oldIndex, newIndex |-> NativeOldIndex]>>
             /\ downSinceEmit' = FALSE
             /\ UNCHANGED <<prevX, prevY, oldIndex>>
     ELSE /\ changeCurrentElIndex' = <<>>
          /\ UNCHANGED <<fields, dom, downSinceEmit>>
  /\ UNCHANGED <<config, hostListeners>>

MovedLeft_ignoresLock(clientX) == Num(OffsetLeft(style) + (clientX - prevX))

\* the inline left after a mousemove
MovedLeft(clientX) ==
  IF blockedAxis # "x"
  THEN Num(OffsetLeft(style) + (clientX - prevX)) ELSE style.left

\* the inline top after a mousemove
MovedTop(clientY) ==
  IF blockedAxis # "y"
  THEN Num(OffsetTop(style) + (clientY - prevY)) ELSE style.top

\* the mousemove evaluates the target index
Evaluates(over) == blockedAxis # "y" /\ over # NullNode

StoredIndex_withTemplate(over, newIndex) ==
  IF Evaluates(over) /\ rowPlaceholder THEN newIndex ELSE oldIndex

\* oldIndex after a mousemove: the computed index whenever one was computed
StoredIndex(over, newIndex) ==
  IF Evaluates(over) THEN newIndex ELSE oldIndex

MoveActive_always == TRUE

MoveActive_needsListener == isDragging /\ mouseMoveListener

\* the mousemove is processed: a drag is in progress
MoveActive == isDragging

onMouseMove(clientX, clientY, over) ==
  /\ hostListeners
  /\ op' = Op("mousemove", over, FALSE, 0, 0)
  /\ changeCurrentElIndex' = <<>>
  /\ IF MoveActive
     THEN \E newIndex \in {ComputeIndex(
                                ItemsOf(children, rowPlaceholderElement),
                                over, oldIndex, clientY < prevY)} :
          \E ps2 \in {IF Evaluates(over) /\ rowPlaceholder
                       THEN changeRowPlaceholderIndex(CurrentPh, newIndex)
                       ELSE CurrentPh} :
             /\ style' = [style EXCEPT !.left = MovedLeft(clientX),
                                       !.top = MovedTop(clientY)]
             /\ oldIndex' = StoredIndex(over, newIndex)
             /\ children' = ps2.children
             /\ rowPlaceholderViewRef' = ps2.viewRef
             /\ rowPlaceholderElement' = ps2.element
             /\ prevX' = clientX
             /\ prevY' = clientY
             /\ UNCHANGED <<isDragging, initialX, initialY, mouseMoveListener,
                            dragClass>>
     ELSE UNCHANGED <<fields, dom>>
  /\ UNCHANGED <<config, hostListeners, downSinceEmit>>

\* teardown: the directive's own cleanup, after which Angular detaches the
\* handlers it attached for the @HostListener decorators
ngOnDestroy ==
  /\ hostListeners
  /\ op' = Op("destroy", NullNode, FALSE, 0, 0)
  /\ changeCurrentElIndex' = <<>>
  /\ mouseMoveListener' = cleanupListeners(mouseMoveListener)
  /\ hostListeners' = FALSE
  /\ UNCHANGED <<config, isDragging, initialX, initialY, prevX, prevY,
                 rowPlaceholderViewRef, rowPlaceholderElement, oldIndex,
                 dom, downSinceEmit>>

MouseDown ==
  \E inHandle \in BOOLEAN, clientX \in ClientXs, clientY \in ClientYs,
     scrollX \in Scrolls, scrollY \in Scrolls :
    /\ (inHandle => hasHandle)
    /\ onMouseDown(inHandle, clientX, clientY, scrollX, scrollY)

MouseUp == onMouseUp

MouseMove ==
  \E clientX \in ClientXs, clientY \in ClientYs,
     over \in UnderCursor(children) :
    onMouseMove(clientX, clientY, over)

Destroy == ngOnDestroy

Next == MouseDown \/ MouseUp \/ MouseMove \/ Destroy

Spec == Init /\ [][Next]_vars

\* ------------------------------------------------------------ properties
\* the real items of the list: the children that are not placeholders
ListItems == SelectSeq(children, LAMBDA c : c.kind = "item")

\* the 0-based index of the host among the real items
HostIndex == IndexOf(ListItems, Item(host)) - 1

\* no placeholder node is among the parent's children
NoPlaceholder == \A c \in PhNodes : ~Contains(children, c)

\* the last handler emitted an event
Emitted == changeCurrentElIndex # <<>>

\* C1: the event emitted at pointer-up carries the index the dragged element
\* had at pointer-down as oldIndex and the index last computed for the
\* placeholder as newIndex.
C1_EmittedPair ==
  Emitted =>
    /\ changeCurrentElIndex[1].oldIndex = HostIndex
    /\ changeCurrentElIndex[1].newIndex = Num(oldIndex)

\* C2: the event is emitted exactly once by each pointer-up that arrives
\* while a session is active and never otherwise; a pointer-up with no
\* active session changes no state; between two emissions there is an
\* accepted pointer-down.
C2_EmitOncePerSession ==
  [][/\ (op'.name = "mouseup" /\ isDragging)
          => (Len(changeCurrentElIndex') = 1 /\ ~isDragging')
     /\ ~(op'.name = "mouseup" /\ isDragging)
          => changeCurrentElIndex' = <<>>
     /\ (op'.name = "mouseup" /\ ~isDragging)
          => UNCHANGED <<config, fields, dom, hostListeners>>
     /\ Emitted' => downSinceEmit]_vars

\* a session has just been completed by a pointer-up
C2_Witness ==
  Emitted /\ op.name = "mouseup" /\ ~isDragging /\ ~downSinceEmit

\* C3: the index computed by a pointer-move of an active session lies
\* within sibling bounds, at least 0 and at most the number of items.
C3_IndexWithinBounds ==
  (op.name = "mousemove" /\ isDragging /\ Evaluates(op.over))
    => (oldIndex >= 0 /\ oldIndex <= Len(ListItems))

\* C4: while no session is active there is no placeholder in the list and
\* the host carries neither drag styles nor the dragging class; the session
\* flag is set only between an accepted pointer-down and the next pointer-up.
C4_IdleIsClean ==
  /\ ~isDragging => (NoPlaceholder /\ style = NoStyle /\ ~dragClass)
  /\ isDragging => downSinceEmit
  /\ op.name \in {"init", "mouseup"} => ~isDragging

\* a session that had a placeholder and had moved the host has ended
C4_Witness ==
  /\ ~isDragging /\ op.name = "mouseup" /\ Emitted
  /\ rowPlaceholder /\ rowPlaceholderElement # NullNode

\* C5: with the x axis locked no pointer-move changes the host's left, with
\* the y axis locked no pointer-move changes its top.
C5_LockedAxisIgnored ==
  [][op'.name = "mousemove" =>
       /\ blockedAxis = "x" => style'.left = style.left
       /\ blockedAxis = "y" => style'.top = style.top]_vars

\* the cursor moved horizontally during a session with the x axis locked
C5_Witness ==
  /\ blockedAxis = "x" /\ isDragging /\ op.name = "mousemove"
  /\ prevX # initialX /\ style.top.def

\* C6: with a handle selector set, a pointer-down outside the handle, or
\* with no handle element, starts no session and changes no state; with no
\* selector, or inside the handle, the pointer-down starts a session.
C6_HandleGatesSession ==
  [][op'.name = "mousedown" =>
       IF dragBy # "" /\ ~(hasHandle /\ op'.inHandle)
       THEN UNCHANGED <<fields, dom>> /\ changeCurrentElIndex' = <<>>
       ELSE isDragging' /\ style'.position = "fixed"]_vars

\* a pointer-down outside an existing handle arrived during a session
C6_Witness ==
  /\ op.name = "mousedown" /\ dragBy # "" /\ hasHandle /\ ~op.inHandle
  /\ isDragging

\* C7: without a placeholder template no placeholder ever exists, and the
\* session still starts on pointer-down, tracks pointer-moves and emits its
\* event on pointer-up.
C7_NoTemplateNoPlaceholder ==
  [][~rowPlaceholder =>
       /\ NoPlaceholder'
       /\ rowPlaceholderViewRef' = NullNode
       /\ rowPlaceholderElement' = NullNode
       /\ (op'.name = "mousedown" /\ (dragBy = "" \/ op'.inHandle))
            => isDragging'
       /\ (op'.name = "mousemove" /\ isDragging) =>
            /\ blockedAxis # "x" => style'.left.def
            /\ blockedAxis # "y" => style'.top.def
            /\ (blockedAxis # "y" /\ op'.over # NullNode) =>
                 oldIndex' = ComputeIndex(children, op'.over, oldIndex,
                                          prevY' < prevY)
       /\ (op'.name = "mouseup" /\ isDragging) => Emitted']_vars

\* a session without a template computed an index other than the previous
\* one and has been completed
C7_Witness ==
  /\ ~rowPlaceholder /\ Emitted /\ changeCurrentElIndex[1].oldIndex > 0

\* C8: while no session is active a pointer-move changes neither the host's
\* position or styles, nor the placeholder, nor the stored index, nor the
\* last-pointer coordinates.
C8_IdleMoveInert ==
  [][(op'.name = "mousemove" /\ ~isDragging) =>
       UNCHANGED <<style, dragClass, children, rowPlaceholderViewRef,
                   rowPlaceholderElement, oldIndex, prevX, prevY>>]_vars

\* a pointer-move arrived after a session had ended
C8_Witness ==
  /\ op.name = "mousemove" /\ ~isDragging /\ ~mouseMoveListener
  /\ hostListeners

\* C9: after teardown the directive's own cleanup leaves no state in which
\* a pointer-move would still be processed.
C9_TeardownEndsSession ==
  ~hostListeners => ~MoveActive

\* C10: a pointer-move of an active session (vertical axis not locked,
\* template present) over the list item at index k relocates the placeholder
\* to index k: k is the index handed to changeRowPlaceholderIndex and stored.
C10_PlaceholderAtHovered ==
  (/\ op.name = "mousemove" /\ isDragging /\ blockedAxis # "y"
   /\ rowPlaceholder /\ op.over \in Items)
    => oldIndex = IndexOf(ListItems, op.over) - 1

\* the element the index computation sees for a hovered element: a
\* placeholder counts as an element that is not in the list
SeenAs(over) == IF over.kind = "placeholder" THEN OutsideEl ELSE over

\* C11: the computed index does not count the placeholder: it is the index
\* computed over the real items alone, wherever the placeholder is, and a
\* cursor over the placeholder is treated as over no list item.
C11_PlaceholderNotCounted ==
  [][(op'.name = "mousemove" /\ isDragging /\ blockedAxis # "y"
      /\ op'.over # NullNode) =>
       oldIndex' = ComputeIndex(ListItems, SeenAs(op'.over), oldIndex,
                                prevY' < prevY)]_vars

\* a pointer-move of an active session had the cursor over the placeholder
C11_Witness ==
  /\ op.name = "mousemove" /\ isDragging /\ blockedAxis # "y"
  /\ rowPlaceholder /\ op.over.kind = "placeholder"

\* the last event was a mousedown that started a drag
AcceptedDown == op.name = "mousedown" /\ (dragBy = "" \/ op.inHandle)

\* the placeholders among the parent's children
PlaceholdersInList == {c \in PhNodes : Contains(children, c)}

\* C12: every pointer-move of an active session with the cursor over an
\* HTML element re-evaluates the target index, whatever the axis lock is.
\* (The relocation follows the evaluation; where the placeholder lands is
\* the subject of C16.)
C12_EveryLockReevaluates ==
  [][(op'.name = "mousemove" /\ isDragging /\ op'.over # NullNode) =>
       oldIndex' = ComputeIndex(ListItems, SeenAs(op'.over), oldIndex,
                                prevY' < prevY)]_vars

\* C13: along an unblocked axis the offsets applied to the host since
\* pointer-down add up to the cursor's displacement in client coordinates.
\* Stated per step, which is the same by telescoping: each pointer-move
\* applies the difference between its client coordinate and the client
\* coordinate of the event before it (prevX after a pointer-move, prevX less
\* the scroll offset right after the pointer-down).
C13_OffsetsFollowCursor ==
  [][(/\ op'.name = "mousemove" /\ isDragging
      /\ (op.name = "mousemove" \/ AcceptedDown)) =>
       /\ blockedAxis # "x" =>
            OffsetLeft(style') - OffsetLeft(style)
              = prevX' - (prevX - op.scrollX)
       /\ blockedAxis # "y" =>
            OffsetTop(style') - OffsetTop(style)
              = prevY' - (prevY - op.scrollY)]_vars

\* C14: what a session computes and emits depends only on the list and on
\* its own events. Stated against the run with no earlier session: in a
\* session started while idle, the first pointer-move computes the index a
\* new directive computes, and a pointer-up with no pointer-move emits the
\* event a new directive emits.
C14_SessionForgetsHistory ==
  [][(AcceptedDown /\ ~op.wasDragging) =>
       /\ (op'.name = "mousemove" /\ blockedAxis # "y"
           /\ op'.over # NullNode) =>
            oldIndex' = ComputeIndex(ListItems, SeenAs(op'.over), FreshIndex,
                                     prevY' < prevY)
       /\ op'.name = "mouseup" =>
            changeCurrentElIndex' =
              <<[oldIndex |-> FreshIndex, newIndex |-> NativeOldIndex]>>]_vars

\* C15: the sibling list never holds more than one placeholder.
C15_AtMostOnePlaceholder ==
  /\ Cardinality(PlaceholdersInList) <= 1
  /\ Len(children) <= NumItems + 1

\* a pointer-down was accepted while a session with a placeholder was
\* already active
C15_Witness ==
  /\ AcceptedDown /\ op.wasDragging /\ rowPlaceholder
  /\ Cardinality(PlaceholdersInList) = 1 /\ oldIndex # FreshIndex

\* C16: after a pointer-move that computed an index, the placeholder's
\* position among the parent's children is the stored index.
C16_PlaceholderAtStoredIndex ==
  (/\ op.name = "mousemove" /\ isDragging /\ rowPlaceholder
   /\ Evaluates(op.over))
    => IndexOf(children, rowPlaceholderElement) - 1 = oldIndex

\* C17: right after an accepted pointer-down with a template there is
\* exactly one placeholder, it is the next sibling of the host, the session
\* is active and the host is in fixed position with the dragging class.
C17_DownPlacesPlaceholder ==
  (AcceptedDown /\ rowPlaceholder) =>
    /\ Cardinality(PlaceholdersInList) = 1
    /\ rowPlaceholderElement \in PlaceholdersInList
    /\ NextSibling(children, Item(host)) = rowPlaceholderElement
    /\ isDragging /\ style.position = "fixed" /\ dragClass

\* a pointer-down was accepted during a session whose placeholder had been
\* relocated by a pointer-move
C17_Witness ==
  /\ AcceptedDown /\ rowPlaceholder /\ op.wasDragging
  /\ oldIndex >= 0 /\ oldIndex # HostIndex + 1

\* C18: once the cleanup of a pointer-up has run, an accepted pointer-down
\* still starts a session, its pointer-moves still translate the host and
\* relocate the placeholder, and its pointer-up still emits one event.
C18_CleanupKeepsDragging ==
  [][~mouseMoveListener =>
       /\ (op'.name = "mousedown" /\ (dragBy = "" \/ op'.inHandle))
            => isDragging'
       /\ (op'.name = "mousemove" /\ isDragging) =>
            /\ blockedAxis # "x" =>
                 style'.left = Num(OffsetLeft(style) + (prevX' - prevX))
            /\ blockedAxis # "y" =>
                 style'.top = Num(OffsetTop(style) + (prevY' - prevY))
            /\ (Evaluates(op'.over) /\ rowPlaceholder) =>
                 /\ oldIndex' = ComputeIndex(ListItems, SeenAs(op'.over),
                                             oldIndex, prevY' < prevY)
                 /\ children' =
                      changeRowPlaceholderIndex(CurrentPh, oldIndex').children
       /\ (op'.name = "mouseup" /\ isDragging)
            => Len(changeCurrentElIndex') = 1]_vars

\* a pointer-move moved the host and the placeholder in a session that was
\* started after an earlier one had been completed
C18_Witness ==
  /\ op.name = "mousemove" /\ isDragging /\ ~mouseMoveListener
  /\ style.top.def /\ style.left.def
  /\ rowPlaceholder /\ NextSibling(children, Item(host)) # rowPlaceholderElement

\* C19: the real items of the list keep their order: the children without
\* the placeholder are the sequence the list started with.
C19_ItemsKeepOrder ==
  ListItems = [i \in 1..NumItems |-> Item(i)]

\* a session that had relocated its placeholder away from the host has been
\* completed
C19_Witness ==
  /\ op.name = "mouseup" /\ Emitted /\ rowPlaceholder
  /\ changeCurrentElIndex[1].oldIndex >= 0
  /\ changeCurrentElIndex[1].oldIndex # HostIndex + 1

====
